---- MODULE Spec2Model ----
(***************************************************************************)
(* State-machine model of the NESsie 6502 core (src/src/cpu.rs): the CPU   *)
(* struct, its memory accessors, the addressing resolver, the flag policy, *)
(* the instruction handlers and the dispatch loop, driven by a harness     *)
(* that calls the public entry points.                                     *)
(*                                                                         *)
(* Representation notes.                                                   *)
(*  - `memory` ([u8; 0xffff]) is kept sparse: a function from the          *)
(*    addresses that hold a non-zero byte to that byte.  Two arrays are    *)
(*    equal iff their sparse forms are equal.                              *)
(*  - a `Vec<u8>` argument is kept as [len, bytes] with `bytes` the sparse *)
(*    map of its non-zero elements (0-based), so that programs of 32 KiB   *)
(*    can be handed to `load`.                                             *)
(*  - a Rust panic is recorded in `panic`; the fields keep whatever the    *)
(*    code had written before the panic.  Once panicked nothing runs.      *)
(*  - `ops::OPCODES_MAP` is not part of the sources at hand; the table is  *)
(*    the standard 6502 table the specification describes (section 2/3).   *)
(***************************************************************************)
EXTENDS Integers, Sequences, FiniteSets, TLC

VARIABLES
    register_a,       \* CPU.register_a : u8
    register_x,       \* CPU.register_x : u8
    register_y,       \* CPU.register_y : u8
    status,           \* CPU.status : u8
    program_counter,  \* CPU.program_counter : u16
    memory,           \* CPU.memory : [u8; 0xffff], sparse
    panic,            \* "none", or the kind of panic that ended the process
    phase,            \* "idle" (in the harness), "running" (inside run's loop),
                      \* "halted" (run returned on BRK)
    opcode,           \* run's local `opcode` of the last iteration, -1 before any
    call,             \* the public entry point the harness called last
    program,          \* the argument of the last load / load_and_run
    ncalls,           \* number of harness calls made so far
    zn_value,         \* the argument of the last direct update_status_z_n call
    overflow_checks,  \* build profile: TRUE = debug (arithmetic overflow panics),
                      \* FALSE = release (arithmetic overflow wraps)
    arg_addr,         \* the address argument of the last direct accessor call
    arg_data,         \* the byte or word argument of the last direct accessor call
    arg_mode,         \* the mode argument of the last direct resolver call
    ret,              \* the outcome [err, val] of the last direct call that returns
                      \* a value (mem_read, mem_read_u16, get_operand_address)
    twin,             \* a second CPU given the same calls: its struct, panic, phase
    pending,          \* the step the first CPU has taken and the twin has not yet
    twin_overflow_checks  \* the twin's build: TRUE iff it panics on overflow

vars == <<register_a, register_x, register_y, status, program_counter, memory,
          panic, phase, opcode, call, program, ncalls, zn_value,
          overflow_checks, arg_addr, arg_data, arg_mode, ret, twin, pending, twin_overflow_checks>>

\* the variables only the direct-call and twin harnesses use
aux == <<arg_addr, arg_data, arg_mode, ret, twin, pending, twin_overflow_checks>>

-----------------------------------------------------------------------------
(* Program constants *)

MemSize == 65535          \* memory: [u8; 0xffff]
LoadOrigin == 32768       \* 0x8000
ResetVector == 65532      \* 0xfffc
FlagZero == 2             \* 0b0000_0010
FlagNegative == 128       \* 0b1000_0000

(* Bounds of the model *)

MaxCalls == 2             \* harness calls per behaviour
MaxReps == 256            \* repetitions of load_and_run([INX, BRK])

U8 == 0 .. 255

-----------------------------------------------------------------------------
(* 8/16-bit arithmetic as the code computes it *)

RECURSIVE BitAnd(_, _)
BitAnd(a, b) ==
    IF a = 0 \/ b = 0 THEN 0
    ELSE (a % 2) * (b % 2) + 2 * BitAnd(a \div 2, b \div 2)

RECURSIVE BitOr(_, _)
BitOr(a, b) ==
    IF a = 0 THEN b
    ELSE IF b = 0 THEN a
    ELSE (IF a % 2 = 1 \/ b % 2 = 1 THEN 1 ELSE 0) + 2 * BitOr(a \div 2, b \div 2)

BitNot8(a) == 255 - a                      \* !flag on u8

\* mutant: the 8-bit sum is widened instead of wrapped
WrapAdd8_no_wrap(a, b) == a + b

\* mutant: the 16-bit sum is widened instead of wrapped
WrapAdd16_no_wrap(a, b) == a + b

WrapAdd8(a, b) == (a + b) % 256            \* u8::wrapping_add
WrapAdd16(a, b) == (a + b) % 65536         \* u16::wrapping_add

-----------------------------------------------------------------------------
(* Results of fallible operations: err = "none" and a value, or a panic kind *)

Ok(v) == [err |-> "none", val |-> v]
Err(kind) == [err |-> kind, val |-> 0]

\* a panic with the struct (or array) as it was when the code panicked
Panicked(state, kind) == [err |-> kind, val |-> state]

\* sequencing: a panic in r ends the computation with r, else F goes on
\* with r's value
AndThen(r, F(_)) == IF r.err # "none" THEN r ELSE F(r.val)

\* sequencing inside a `&mut self` method: a panic in r leaves `state`
OrPanic(state, r, F(_)) == IF r.err # "none" THEN Panicked(state, r.err) ELSE F(r.val)

\* `let v = ...;`
With(v, F(_)) == F(v)

-----------------------------------------------------------------------------
(* The CPU struct and its construction *)

Self ==
    [register_a |-> register_a, register_x |-> register_x,
     register_y |-> register_y, status |-> status,
     program_counter |-> program_counter, memory |-> memory]

EmptyMemory == [a \in {} |-> 0]

new ==
    [register_a |-> 0, register_x |-> 0, register_y |-> 0, status |-> 0,
     program_counter |-> 0, memory |-> EmptyMemory]

-----------------------------------------------------------------------------
(* Memory accessors *)

\* the array cell at addr (addr < MemSize)
Cell(mem, addr) == IF addr \in DOMAIN mem THEN mem[addr] ELSE 0

\* the array with cell addr set to data (addr < MemSize)
SetCell(mem, addr, data) ==
    IF data = 0
    THEN [a \in DOMAIN mem \ {addr} |-> mem[a]]
    ELSE [a \in DOMAIN mem \cup {addr} |-> IF a = addr THEN data ELSE mem[a]]

\* self.memory[addr as usize]; indexing at or past the array length panics
mem_read(mem, addr) ==
    IF addr < MemSize THEN Ok(Cell(mem, addr)) ELSE Err("index_out_of_bounds")

\* self.memory[addr as usize] = data; val is the array afterwards (untouched
\* when the index is out of bounds)
mem_write(mem, addr, data) ==
    IF addr < MemSize
    THEN Ok(SetCell(mem, addr, data))
    ELSE [err |-> "index_out_of_bounds", val |-> mem]

\* `pos + 1` on u16: overflow at 0xffff panics in a debug build and wraps in release
AddrPlus1(pos, checks) ==
    IF pos + 1 > 65535
    THEN (IF checks THEN Err("arithmetic_overflow") ELSE Ok(0))
    ELSE Ok(pos + 1)

mem_read_u16(mem, pos, checks) ==
    AndThen(mem_read(mem, pos), LAMBDA lo :
    AndThen(AddrPlus1(pos, checks), LAMBDA next :
    AndThen(mem_read(mem, next), LAMBDA hi :
    Ok(BitOr((hi * 256) % 65536, lo)))))

\* val is the array afterwards (with the low byte written if the panic came
\* after it)
mem_write_u16(mem, pos, data, checks) ==
    AndThen(mem_write(mem, pos, BitAnd(data, 255)), LAMBDA low_written :
    OrPanic(low_written, AddrPlus1(pos, checks), LAMBDA next :
    mem_write(low_written, next, data \div 256)))

-----------------------------------------------------------------------------
(* The opcode table, ops::OPCODES_MAP: opcode byte -> descriptor.            *)
(* Standard 6502 descriptors: mnemonic, length in bytes, base cycle count,  *)
(* addressing mode.                                                         *)

Op(mnemonic, len, cycles, mode) ==
    [mnemonic |-> mnemonic, len |-> len, cycles |-> cycles, mode |-> mode]

\* the eight-mode accumulator group (ORA, AND, EOR, ADC, CMP, SBC) at `base`
AluGroup(mnemonic, base) ==
    (base + 9)  :> Op(mnemonic, 2, 2, "Immediate")  @@
    (base + 5)  :> Op(mnemonic, 2, 3, "ZeroPage")   @@
    (base + 21) :> Op(mnemonic, 2, 4, "ZeroPage_X") @@
    (base + 13) :> Op(mnemonic, 3, 4, "Absolute")   @@
    (base + 29) :> Op(mnemonic, 3, 4, "Absolute_X") @@
    (base + 25) :> Op(mnemonic, 3, 4, "Absolute_Y") @@
    (base + 1)  :> Op(mnemonic, 2, 6, "Indirect_X") @@
    (base + 17) :> Op(mnemonic, 2, 5, "Indirect_Y")

\* the five-mode shift/rotate group (ASL, ROL, LSR, ROR) at `base`
ShiftGroup(mnemonic, base) ==
    (base + 10) :> Op(mnemonic, 1, 2, "Accumulator") @@
    (base + 6)  :> Op(mnemonic, 2, 5, "ZeroPage")    @@
    (base + 22) :> Op(mnemonic, 2, 6, "ZeroPage_X")  @@
    (base + 14) :> Op(mnemonic, 3, 6, "Absolute")    @@
    (base + 30) :> Op(mnemonic, 3, 7, "Absolute_X")

\* the four-mode memory increment/decrement group (DEC, INC) at `base`
IncDecGroup(mnemonic, base) ==
    (base + 6)  :> Op(mnemonic, 2, 5, "ZeroPage")    @@
    (base + 22) :> Op(mnemonic, 2, 6, "ZeroPage_X")  @@
    (base + 14) :> Op(mnemonic, 3, 6, "Absolute")    @@
    (base + 30) :> Op(mnemonic, 3, 7, "Absolute_X")

\* descriptors of the opcodes run dispatches to a handler
HandledOps ==
    \h00 :> Op("BRK", 1, 7, "Implied")    @@
    \hE8 :> Op("INX", 1, 2, "Implied")    @@
    \hAA :> Op("TAX", 1, 2, "Implied")    @@
    \hA9 :> Op("LDA", 2, 2, "Immediate")  @@
    \hA5 :> Op("LDA", 2, 3, "ZeroPage")   @@
    \hB5 :> Op("LDA", 2, 4, "ZeroPage_X") @@
    \hAD :> Op("LDA", 3, 4, "Absolute")   @@
    \hBD :> Op("LDA", 3, 4, "Absolute_X") @@
    \hB9 :> Op("LDA", 3, 4, "Absolute_Y") @@
    \hA1 :> Op("LDA", 2, 6, "Indirect_X") @@
    \hB1 :> Op("LDA", 2, 5, "Indirect_Y") @@
    \hA2 :> Op("LDX", 2, 2, "Immediate")  @@
    \hA6 :> Op("LDX", 2, 3, "ZeroPage")   @@
    \hB6 :> Op("LDX", 2, 4, "ZeroPage_Y") @@
    \hAE :> Op("LDX", 3, 4, "Absolute")   @@
    \hBE :> Op("LDX", 3, 4, "Absolute_Y") @@
    \hA0 :> Op("LDY", 2, 2, "Immediate")  @@
    \hA4 :> Op("LDY", 2, 3, "ZeroPage")   @@
    \hB4 :> Op("LDY", 2, 4, "ZeroPage_X") @@
    \hAC :> Op("LDY", 3, 4, "Absolute")   @@
    \hBC :> Op("LDY", 3, 4, "Absolute_X") @@
    \h85 :> Op("STA", 2, 3, "ZeroPage")   @@
    \h95 :> Op("STA", 2, 4, "ZeroPage_X") @@
    \h8D :> Op("STA", 3, 4, "Absolute")   @@
    \h9D :> Op("STA", 3, 5, "Absolute_X") @@
    \h99 :> Op("STA", 3, 5, "Absolute_Y") @@
    \h81 :> Op("STA", 2, 6, "Indirect_X") @@
    \h91 :> Op("STA", 2, 6, "Indirect_Y") @@
    \h86 :> Op("STX", 2, 3, "ZeroPage")   @@
    \h96 :> Op("STX", 2, 4, "ZeroPage_Y") @@
    \h8E :> Op("STX", 3, 4, "Absolute")   @@
    \h84 :> Op("STY", 2, 3, "ZeroPage")   @@
    \h94 :> Op("STY", 2, 4, "ZeroPage_X") @@
    \h8C :> Op("STY", 3, 4, "Absolute")

\* descriptors of the table's other opcodes (run has no handler for them)
OtherOps ==
    AluGroup("ORA", \h00) @@ AluGroup("AND", \h20) @@ AluGroup("EOR", \h40) @@
    AluGroup("ADC", \h60) @@ AluGroup("CMP", \hC0) @@ AluGroup("SBC", \hE0) @@
    ShiftGroup("ASL", \h00) @@ ShiftGroup("ROL", \h20) @@
    ShiftGroup("LSR", \h40) @@ ShiftGroup("ROR", \h60) @@
    IncDecGroup("DEC", \hC0) @@ IncDecGroup("INC", \hE0) @@
    \h90 :> Op("BCC", 2, 2, "Relative") @@ \hB0 :> Op("BCS", 2, 2, "Relative") @@
    \hF0 :> Op("BEQ", 2, 2, "Relative") @@ \h30 :> Op("BMI", 2, 2, "Relative") @@
    \hD0 :> Op("BNE", 2, 2, "Relative") @@ \h10 :> Op("BPL", 2, 2, "Relative") @@
    \h50 :> Op("BVC", 2, 2, "Relative") @@ \h70 :> Op("BVS", 2, 2, "Relative") @@
    \h24 :> Op("BIT", 2, 3, "ZeroPage") @@ \h2C :> Op("BIT", 3, 4, "Absolute") @@
    \h18 :> Op("CLC", 1, 2, "Implied")  @@ \hD8 :> Op("CLD", 1, 2, "Implied")  @@
    \h58 :> Op("CLI", 1, 2, "Implied")  @@ \hB8 :> Op("CLV", 1, 2, "Implied")  @@
    \h38 :> Op("SEC", 1, 2, "Implied")  @@ \hF8 :> Op("SED", 1, 2, "Implied")  @@
    \h78 :> Op("SEI", 1, 2, "Implied")  @@
    \hE0 :> Op("CPX", 2, 2, "Immediate") @@ \hE4 :> Op("CPX", 2, 3, "ZeroPage") @@
    \hEC :> Op("CPX", 3, 4, "Absolute")  @@
    \hC0 :> Op("CPY", 2, 2, "Immediate") @@ \hC4 :> Op("CPY", 2, 3, "ZeroPage") @@
    \hCC :> Op("CPY", 3, 4, "Absolute")  @@
    \hCA :> Op("DEX", 1, 2, "Implied")  @@ \h88 :> Op("DEY", 1, 2, "Implied")  @@
    \hC8 :> Op("INY", 1, 2, "Implied")  @@ \hEA :> Op("NOP", 1, 2, "Implied")  @@
    \h4C :> Op("JMP", 3, 3, "Absolute") @@ \h6C :> Op("JMP", 3, 5, "Indirect") @@
    \h20 :> Op("JSR", 3, 6, "Absolute") @@
    \h40 :> Op("RTI", 1, 6, "Implied")  @@ \h60 :> Op("RTS", 1, 6, "Implied")  @@
    \h48 :> Op("PHA", 1, 3, "Implied")  @@ \h08 :> Op("PHP", 1, 3, "Implied")  @@
    \h68 :> Op("PLA", 1, 4, "Implied")  @@ \h28 :> Op("PLP", 1, 4, "Implied")  @@
    \hA8 :> Op("TAY", 1, 2, "Implied")  @@ \hBA :> Op("TSX", 1, 2, "Implied")  @@
    \h8A :> Op("TXA", 1, 2, "Implied")  @@ \h9A :> Op("TXS", 1, 2, "Implied")  @@
    \h98 :> Op("TYA", 1, 2, "Implied")

OPCODES_MAP == HandledOps @@ OtherOps

-----------------------------------------------------------------------------
(* Addressing resolver: get_operand_address(&self, mode) -> u16.            *)
(* program_counter points at the byte after the opcode.                     *)

\* mutant: Indirect_X adds X after dereferencing, as Indirect_Y does with Y
get_operand_address_index_late(self, mode, checks) ==
    LET pc  == self.program_counter
        mem == self.memory
    IN
    CASE mode = "Immediate" -> Ok(pc)
      [] mode = "ZeroPage" -> mem_read(mem, pc)
      [] mode = "Absolute" -> mem_read_u16(mem, pc, checks)
      [] mode = "ZeroPage_X" ->
            AndThen(mem_read(mem, pc), LAMBDA pos :
            Ok(WrapAdd8(pos, self.register_x)))
      [] mode = "ZeroPage_Y" ->
            AndThen(mem_read(mem, pc), LAMBDA pos :
            Ok(WrapAdd8(pos, self.register_y)))
      [] mode = "Absolute_X" ->
            AndThen(mem_read_u16(mem, pc, checks), LAMBDA base :
            Ok(WrapAdd16(base, self.register_x)))
      [] mode = "Absolute_Y" ->
            AndThen(mem_read_u16(mem, pc, checks), LAMBDA base :
            Ok(WrapAdd16(base, self.register_y)))
      [] mode = "Indirect_X" ->
            AndThen(mem_read(mem, pc), LAMBDA base :
            AndThen(mem_read(mem, base), LAMBDA lo :
            AndThen(mem_read(mem, WrapAdd8(base, 1)), LAMBDA hi :
            With(BitOr((hi * 256) % 65536, lo), LAMBDA deref_base :
            Ok(WrapAdd16(deref_base, self.register_x))))))
      [] mode = "Indirect_Y" ->
            AndThen(mem_read(mem, pc), LAMBDA base :
            AndThen(mem_read(mem, base), LAMBDA lo :
            AndThen(mem_read(mem, WrapAdd8(base, 1)), LAMBDA hi :
            With(BitOr((hi * 256) % 65536, lo), LAMBDA deref_base :
            Ok(WrapAdd16(deref_base, self.register_y))))))
      [] OTHER -> Err("mode_not_supported")

\* mutant: a mode without address silently resolves to address 0
get_operand_address_any_mode(self, mode, checks) ==
    LET pc  == self.program_counter
        mem == self.memory
    IN
    CASE mode = "Immediate" -> Ok(pc)
      [] mode = "ZeroPage" -> mem_read(mem, pc)
      [] mode = "Absolute" -> mem_read_u16(mem, pc, checks)
      [] mode = "ZeroPage_X" ->
            AndThen(mem_read(mem, pc), LAMBDA pos :
            Ok(WrapAdd8(pos, self.register_x)))
      [] mode = "ZeroPage_Y" ->
            AndThen(mem_read(mem, pc), LAMBDA pos :
            Ok(WrapAdd8(pos, self.register_y)))
      [] mode = "Absolute_X" ->
            AndThen(mem_read_u16(mem, pc, checks), LAMBDA base :
            Ok(WrapAdd16(base, self.register_x)))
      [] mode = "Absolute_Y" ->
            AndThen(mem_read_u16(mem, pc, checks), LAMBDA base :
            Ok(WrapAdd16(base, self.register_y)))
      [] mode = "Indirect_X" ->
            AndThen(mem_read(mem, pc), LAMBDA base :
            With(WrapAdd8(base, self.register_x), LAMBDA ptr :
            AndThen(mem_read(mem, ptr), LAMBDA lo :
            AndThen(mem_read(mem, WrapAdd8(ptr, 1)), LAMBDA hi :
            Ok(BitOr((hi * 256) % 65536, lo))))))
      [] mode = "Indirect_Y" ->
            AndThen(mem_read(mem, pc), LAMBDA base :
            AndThen(mem_read(mem, base), LAMBDA lo :
            AndThen(mem_read(mem, WrapAdd8(base, 1)), LAMBDA hi :
            With(BitOr((hi * 256) % 65536, lo), LAMBDA deref_base :
            Ok(WrapAdd16(deref_base, self.register_y))))))
      [] OTHER -> Ok(0)

get_operand_address(self, mode, checks) ==
    LET pc  == self.program_counter
        mem == self.memory
    IN
    CASE mode = "Immediate" -> Ok(pc)
      [] mode = "ZeroPage" -> mem_read(mem, pc)
      [] mode = "Absolute" -> mem_read_u16(mem, pc, checks)
      [] mode = "ZeroPage_X" ->
            AndThen(mem_read(mem, pc), LAMBDA pos :
            Ok(WrapAdd8(pos, self.register_x)))
      [] mode = "ZeroPage_Y" ->
            AndThen(mem_read(mem, pc), LAMBDA pos :
            Ok(WrapAdd8(pos, self.register_y)))
      [] mode = "Absolute_X" ->
            AndThen(mem_read_u16(mem, pc, checks), LAMBDA base :
            Ok(WrapAdd16(base, self.register_x)))
      [] mode = "Absolute_Y" ->
            AndThen(mem_read_u16(mem, pc, checks), LAMBDA base :
            Ok(WrapAdd16(base, self.register_y)))
      [] mode = "Indirect_X" ->
            AndThen(mem_read(mem, pc), LAMBDA base :
            With(WrapAdd8(base, self.register_x), LAMBDA ptr :
            AndThen(mem_read(mem, ptr), LAMBDA lo :
            AndThen(mem_read(mem, WrapAdd8(ptr, 1)), LAMBDA hi :
            Ok(BitOr((hi * 256) % 65536, lo))))))
      [] mode = "Indirect_Y" ->
            AndThen(mem_read(mem, pc), LAMBDA base :
            AndThen(mem_read(mem, base), LAMBDA lo :
            AndThen(mem_read(mem, WrapAdd8(base, 1)), LAMBDA hi :
            With(BitOr((hi * 256) % 65536, lo), LAMBDA deref_base :
            Ok(WrapAdd16(deref_base, self.register_y))))))
      [] OTHER -> Err("mode_not_supported")

-----------------------------------------------------------------------------
(* Flag policy *)

\* mutant: the clearing branch forgets to invert the mask (status &= flag)
update_processor_status_no_invert(st, condition, flag) ==
    IF condition THEN BitOr(st, flag) ELSE BitAnd(st, flag)

update_processor_status(st, condition, flag) ==
    IF condition THEN BitOr(st, flag) ELSE BitAnd(st, BitNot8(flag))

\* mutant: Negative is set when bit 7 of the value is set and never cleared
update_status_z_n_sticky_negative(st, value) ==
    LET z == update_processor_status(st, value = 0, FlagZero)
    IN  IF BitAnd(value, FlagNegative) # 0 THEN BitOr(z, FlagNegative) ELSE z

update_status_z_n(st, value) ==
    LET z == update_processor_status(st, value = 0, FlagZero)
    IN  update_processor_status(z, BitAnd(value, FlagNegative) # 0, FlagNegative)

-----------------------------------------------------------------------------
(* Instruction handlers: each returns [err, val], val the struct afterwards  *)
(* (the struct as it was when the handler panicked, if err # "none").       *)

\* the struct with its memory replaced by the outcome r of a write
WithMemory(self, r) == [err |-> r.err, val |-> [self EXCEPT !.memory = r.val]]

\* mutant: INX sets the carry bit (bit 0) when X wraps to 0
inx_sets_carry(self) ==
    With(WrapAdd8(self.register_x, 1), LAMBDA x :
    With(IF x = 0 THEN BitOr(self.status, 1) ELSE self.status, LAMBDA carried :
    Ok([self EXCEPT !.register_x = x, !.status = update_status_z_n(carried, x)])))

\* mutant: TAX moves A into X and leaves 0 in A
tax_moves(self) ==
    With(self.register_a, LAMBDA x :
    Ok([self EXCEPT !.register_x = x, !.register_a = 0,
                    !.status = update_status_z_n(self.status, x)]))

inx(self) ==
    With(WrapAdd8(self.register_x, 1), LAMBDA x :
    Ok([self EXCEPT !.register_x = x, !.status = update_status_z_n(self.status, x)]))

tax(self) ==
    With(self.register_a, LAMBDA x :
    Ok([self EXCEPT !.register_x = x, !.status = update_status_z_n(self.status, x)]))

lda(self, mode, checks) ==
    OrPanic(self, get_operand_address(self, mode, checks), LAMBDA addr :
    OrPanic(self, mem_read(self.memory, addr), LAMBDA v :
    Ok([self EXCEPT !.register_a = v, !.status = update_status_z_n(self.status, v)])))

ldx(self, mode, checks) ==
    OrPanic(self, get_operand_address(self, mode, checks), LAMBDA addr :
    OrPanic(self, mem_read(self.memory, addr), LAMBDA v :
    Ok([self EXCEPT !.register_x = v, !.status = update_status_z_n(self.status, v)])))

ldy(self, mode, checks) ==
    OrPanic(self, get_operand_address(self, mode, checks), LAMBDA addr :
    OrPanic(self, mem_read(self.memory, addr), LAMBDA v :
    Ok([self EXCEPT !.register_y = v, !.status = update_status_z_n(self.status, v)])))

sta(self, mode, checks) ==
    OrPanic(self, get_operand_address(self, mode, checks), LAMBDA addr :
    WithMemory(self, mem_write(self.memory, addr, self.register_a)))

stx(self, mode, checks) ==
    OrPanic(self, get_operand_address(self, mode, checks), LAMBDA addr :
    WithMemory(self, mem_write(self.memory, addr, self.register_x)))

sty(self, mode, checks) ==
    OrPanic(self, get_operand_address(self, mode, checks), LAMBDA addr :
    WithMemory(self, mem_write(self.memory, addr, self.register_y)))

-----------------------------------------------------------------------------
(* reset, load *)

\* mutant: reset also clears the status byte
reset_clears_status(self, checks) ==
    With([self EXCEPT !.register_a = 0, !.register_x = 0, !.register_y = 0,
                      !.status = 0],
         LAMBDA zeroed :
    OrPanic(zeroed, mem_read_u16(zeroed.memory, ResetVector, checks), LAMBDA vector :
    Ok([zeroed EXCEPT !.program_counter = vector])))

\* mutant: reset forgets to zero X
reset_keeps_x(self, checks) ==
    With([self EXCEPT !.register_a = 0, !.register_y = 0],
         LAMBDA zeroed :
    OrPanic(zeroed, mem_read_u16(zeroed.memory, ResetVector, checks), LAMBDA vector :
    Ok([zeroed EXCEPT !.program_counter = vector])))

reset(self, checks) ==
    With([self EXCEPT !.register_a = 0, !.register_x = 0, !.register_y = 0],
         LAMBDA zeroed :
    OrPanic(zeroed, mem_read_u16(zeroed.memory, ResetVector, checks), LAMBDA vector :
    Ok([zeroed EXCEPT !.program_counter = vector])))

\* a Vec<u8>: its length and its non-zero elements by 0-based index
Vec(bytes) ==
    [len |-> Len(bytes),
     bytes |-> [i \in {j \in 0 .. Len(bytes) - 1 : bytes[j + 1] # 0} |-> bytes[i + 1]]]

VecAt(v, i) == IF i \in DOMAIN v.bytes THEN v.bytes[i] ELSE 0

\* memory[0x8000 .. 0x8000 + len].copy_from_slice(&program[..])
CopyFromSlice(mem, origin, prog) ==
    LET inside(a) == a >= origin /\ a < origin + prog.len
        kept      == {a \in DOMAIN mem : ~inside(a)}
        copied    == {origin + i : i \in DOMAIN prog.bytes}
    IN  [a \in kept \cup copied |->
            IF inside(a) THEN prog.bytes[a - origin] ELSE mem[a]]

\* mutant: load forgets to write the reset vector
load_skips_vector(self, prog, checks) ==
    IF LoadOrigin + prog.len > MemSize
    THEN Panicked(self, "slice_index_out_of_range")
    ELSE Ok([self EXCEPT !.memory = CopyFromSlice(self.memory, LoadOrigin, prog),
                         !.program_counter = LoadOrigin])

\* mutant: load sets program_counter and the reset vector before the copy
\* that panics
load_writes_before_copy(self, prog, checks) ==
    With([self EXCEPT !.program_counter = LoadOrigin], LAMBDA started :
    With(WithMemory(started,
                    mem_write_u16(started.memory, ResetVector, LoadOrigin, checks)),
         LAMBDA vectored :
    IF LoadOrigin + prog.len > MemSize
    THEN Panicked(vectored.val, "slice_index_out_of_range")
    ELSE Ok([vectored.val EXCEPT
                !.memory = CopyFromSlice(vectored.val.memory, LoadOrigin, prog)])))

load(self, prog, checks) ==
    IF LoadOrigin + prog.len > MemSize
    THEN Panicked(self, "slice_index_out_of_range")
    ELSE With([self EXCEPT !.memory = CopyFromSlice(self.memory, LoadOrigin, prog),
                           !.program_counter = LoadOrigin],
              LAMBDA copied :
         WithMemory(copied, mem_write_u16(copied.memory, ResetVector, LoadOrigin, checks)))

-----------------------------------------------------------------------------
(* One iteration of run's loop: [err, val, returned, opcode]                 *)

LdaOps == {\hA9, \hA5, \hB5, \hAD, \hBD, \hB9, \hA1, \hB1}
LdxOps == {\hA2, \hA6, \hB6, \hAE, \hBE}
LdyOps == {\hA0, \hA4, \hB4, \hAC, \hBC}
StaOps == {\h85, \h95, \h8D, \h9D, \h99, \h81, \h91}
StxOps == {\h86, \h96, \h8E}
StyOps == {\h84, \h94, \h8C}
Brk == 0
Inx == 232   \* 0xe8
Tax == 170   \* 0xaa

\* mutant: an opcode without handler is skipped like a NOP
dispatch_skips_unknown(self, opc, mode, checks) ==
    CASE opc = Inx -> inx(self)
      [] opc \in LdaOps -> lda(self, mode, checks)
      [] opc \in LdxOps -> ldx(self, mode, checks)
      [] opc \in LdyOps -> ldy(self, mode, checks)
      [] opc \in StaOps -> sta(self, mode, checks)
      [] opc \in StxOps -> stx(self, mode, checks)
      [] opc \in StyOps -> sty(self, mode, checks)
      [] opc = Tax -> tax(self)
      [] OTHER -> Ok(self)

\* mutant: the TAX arm resolves an operand address with the opcode's mode
dispatch_tax_resolves(self, opc, mode, checks) ==
    CASE opc = Inx -> inx(self)
      [] opc \in LdaOps -> lda(self, mode, checks)
      [] opc \in LdxOps -> ldx(self, mode, checks)
      [] opc \in LdyOps -> ldy(self, mode, checks)
      [] opc \in StaOps -> sta(self, mode, checks)
      [] opc \in StxOps -> stx(self, mode, checks)
      [] opc \in StyOps -> sty(self, mode, checks)
      [] opc = Tax -> OrPanic(self, get_operand_address(self, mode, checks),
                              LAMBDA addr : tax(self))
      [] OTHER -> Panicked(self, "not_yet_implemented")

\* the arms of `match opcode` other than BRK
dispatch(self, opc, mode, checks) ==
    CASE opc = Inx -> inx(self)
      [] opc \in LdaOps -> lda(self, mode, checks)
      [] opc \in LdxOps -> ldx(self, mode, checks)
      [] opc \in LdyOps -> ldy(self, mode, checks)
      [] opc \in StaOps -> sta(self, mode, checks)
      [] opc \in StxOps -> stx(self, mode, checks)
      [] opc \in StyOps -> sty(self, mode, checks)
      [] opc = Tax -> tax(self)
      [] OTHER -> Panicked(self, "not_yet_implemented")

\* self.program_counter += n on u16
PcAdd(self, n, checks) ==
    LET sum == self.program_counter + n IN
    IF sum > 65535
    THEN (IF checks THEN Panicked(self, "arithmetic_overflow")
                    ELSE Ok([self EXCEPT !.program_counter = sum % 65536]))
    ELSE Ok([self EXCEPT !.program_counter = sum])

\* the amount run adds to program_counter after the handler
PcAdvance(op) == op.cycles - 1

\* mutant: NOP (0xea) ends run like BRK
IsReturn_or_nop(opc) == opc = Brk \/ opc = \hEA

IsReturn(opc) == opc = Brk

\* the outcome of an iteration: the struct afterwards, the panic if any,
\* whether run returned, and the opcode fetched (-1: the fetch panicked)
Iteration(r, opc, returns) ==
    [err |-> r.err, val |-> r.val, opcode |-> opc,
     returned |-> (returns /\ r.err = "none")]

\* mutant: BRK sets the Break flag (bit 4) before run returns
run_iteration_brk_sets_break(self, checks) ==
    With(mem_read(self.memory, self.program_counter), LAMBDA fetch :
    IF fetch.err # "none"
    THEN Iteration(Panicked(self, fetch.err), -1, FALSE)
    ELSE With(fetch.val, LAMBDA opc :
    IF opc \notin DOMAIN OPCODES_MAP
    THEN Iteration(Panicked(self, "unwrap_on_none"), opc, FALSE)
    ELSE With(OPCODES_MAP[opc], LAMBDA op :
    Iteration(
        AndThen(PcAdd(self, 1, checks), LAMBDA fetched :
        IF IsReturn(opc)
        THEN Ok([fetched EXCEPT !.status = BitOr(fetched.status, 16)])
        ELSE AndThen(dispatch(fetched, opc, op.mode, checks), LAMBDA handled :
             PcAdd(handled, PcAdvance(op), checks))),
        opc, IsReturn(opc)))))

run_iteration(self, checks) ==
    With(mem_read(self.memory, self.program_counter), LAMBDA fetch :
    IF fetch.err # "none"
    THEN Iteration(Panicked(self, fetch.err), -1, FALSE)
    ELSE With(fetch.val, LAMBDA opc :
    IF opc \notin DOMAIN OPCODES_MAP
    THEN Iteration(Panicked(self, "unwrap_on_none"), opc, FALSE)
    ELSE With(OPCODES_MAP[opc], LAMBDA op :
    Iteration(
        AndThen(PcAdd(self, 1, checks), LAMBDA fetched :
        IF IsReturn(opc)
        THEN Ok(fetched)
        ELSE AndThen(dispatch(fetched, opc, op.mode, checks), LAMBDA handled :
             PcAdd(handled, PcAdvance(op), checks))),
        opc, IsReturn(opc)))))

-----------------------------------------------------------------------------
(* Inputs of the harness *)

\* LDA #$85, LDX #$02, LDY #$ff: puts distinct values in the registers
Setup == <<\hA9, \h85, \hA2, \h02, \hA0, \hFF>>

HandledNonBrk == DOMAIN HandledOps \ {Brk}
ThreeByteOps == {o \in HandledNonBrk : HandledOps[o].len = 3}

\* one handled instruction after Setup, operand bytes ff ff (and 00 70 for
\* the absolute forms)
OpPrograms ==
    {Setup \o <<o, \hFF, \hFF>> : o \in HandledNonBrk} \cup
    {Setup \o <<o, \h00, \h70>> : o \in ThreeByteOps}

\* programs of the repository's tests, and ones that hit an opcode without
\* handler (NOP 0xea) or without table entry (0x02)
TestPrograms ==
    { <<\hA9, \h05, \h00>>, <<\hA9, \h00, \h00>>, <<\hA9, \h80, \h00>>,
      <<\hA2, \h00, \h00>>, <<\hA0, \h00, \h00>>,
      <<\hA9, \h05, \hAA, \h00>>, <<\hAA, \h00>>, <<\hE8, \h00>>,
      <<\hA9, \h05, \h85, \h77, \h00>>, <<\hAA, \hE8, \h00>>,
      <<\hA9, \h05, \hEA, \h00>>, <<\hA9, \h05, \h02, \h00>> }

InxProgram == Vec(<<\hE8, \h00>>)

\* programs that reach up to, onto and past the reset vector and the top of
\* memory: a ff byte last, zeros before it
LongLens == {32764, 32765, 32766, 32767, 32768, 32769}
LongPrograms == {[len |-> n, bytes |-> (n - 1) :> \hFF] : n \in LongLens}

RunPrograms == {Vec(b) : b \in OpPrograms \cup TestPrograms} \cup
               {p \in LongPrograms : p.len \in {32765, 32769}}
LoadPrograms == LongPrograms \cup
                {Vec(<<\hAA, \hE8, \h00>>), Vec(Setup \o <<\h8D, \hFF, \hFF>>)}

WriteAddrs == {\h0001, \h00FF, \h7000}
WriteData == {\h80}

-----------------------------------------------------------------------------
(* The state machine *)

Commit(s) ==
    /\ register_a' = s.register_a
    /\ register_x' = s.register_x
    /\ register_y' = s.register_y
    /\ status' = s.status
    /\ program_counter' = s.program_counter
    /\ memory' = s.memory

\* nothing called directly yet; the twin CPU is constructed like the first,
\* in the same build
AuxInit ==
    /\ arg_addr = -1
    /\ arg_data = -1
    /\ arg_mode = "none"
    /\ ret = Ok(-1)
    /\ twin = [cpu |-> new, panic |-> "none", phase |-> "idle"]
    /\ pending = <<>>
    /\ twin_overflow_checks = overflow_checks

Init ==
    /\ register_a = new.register_a
    /\ register_x = new.register_x
    /\ register_y = new.register_y
    /\ status = new.status
    /\ program_counter = new.program_counter
    /\ memory = new.memory
    /\ panic = "none"
    /\ phase = "idle"
    /\ opcode = -1
    /\ call = "new"
    /\ program = Vec(<<>>)
    /\ ncalls = 0
    /\ zn_value = 0
    /\ overflow_checks \in BOOLEAN
    /\ AuxInit

\* the harness may call an entry point when no call is in progress
CanCall == panic = "none" /\ phase # "running"

\* cpu.mem_write(addr, data)
MemWrite ==
    /\ CanCall /\ ncalls < MaxCalls
    /\ \E addr \in WriteAddrs, data \in WriteData :
          /\ memory' = mem_write(memory, addr, data).val
          /\ panic' = mem_write(memory, addr, data).err
    /\ call' = "mem_write"
    /\ phase' = "idle"
    /\ ncalls' = ncalls + 1
    /\ UNCHANGED <<register_a, register_x, register_y, status, program_counter,
                   opcode, program, zn_value, overflow_checks, aux>>

DoLoad(prog) ==
    LET r == load(Self, prog, overflow_checks) IN
    /\ Commit(r.val)
    /\ panic' = r.err
    /\ call' = "load"
    /\ program' = prog
    /\ phase' = "idle"
    /\ ncalls' = ncalls + 1
    /\ UNCHANGED <<opcode, zn_value, overflow_checks, aux>>

\* cpu.load(program)
Load ==
    /\ CanCall /\ ncalls < MaxCalls
    /\ \E prog \in LoadPrograms : DoLoad(prog)

\* cpu.reset()
Reset ==
    /\ CanCall /\ ncalls < MaxCalls
    /\ LET r == reset(Self, overflow_checks) IN
          Commit(r.val) /\ panic' = r.err
    /\ call' = "reset"
    /\ phase' = "idle"
    /\ ncalls' = ncalls + 1
    /\ UNCHANGED <<opcode, program, zn_value, overflow_checks, aux>>

\* cpu.run(): enters the loop
Run ==
    /\ CanCall /\ ncalls < MaxCalls
    /\ call' = "run"
    /\ phase' = "running"
    /\ ncalls' = ncalls + 1
    /\ UNCHANGED <<register_a, register_x, register_y, status, program_counter,
                   memory, panic, opcode, program, zn_value, overflow_checks, aux>>

\* load; reset; and into run's loop
DoLoadAndRun(prog) ==
    LET l == load(Self, prog, overflow_checks)
        r == reset(l.val, overflow_checks)
    IN
    /\ IF l.err # "none"
       THEN Commit(l.val) /\ panic' = l.err /\ phase' = "idle"
       ELSE IF r.err # "none"
       THEN Commit(r.val) /\ panic' = r.err /\ phase' = "idle"
       ELSE Commit(r.val) /\ panic' = "none" /\ phase' = "running"
    /\ call' = "load_and_run"
    /\ program' = prog
    /\ ncalls' = ncalls + 1
    /\ UNCHANGED <<opcode, zn_value, overflow_checks, aux>>

\* cpu.load_and_run(program)
LoadAndRun ==
    /\ CanCall /\ ncalls < MaxCalls
    /\ \E prog \in RunPrograms : DoLoadAndRun(prog)

\* one iteration of run's loop
RunStep ==
    /\ panic = "none" /\ phase = "running"
    /\ LET it == run_iteration(Self, overflow_checks) IN
          /\ Commit(it.val)
          /\ panic' = it.err
          /\ opcode' = it.opcode
          /\ phase' = IF it.returned THEN "halted" ELSE "running"
    /\ UNCHANGED <<call, program, ncalls, zn_value, overflow_checks, aux>>

Next == MemWrite \/ Load \/ Reset \/ Run \/ LoadAndRun \/ RunStep

Spec == Init /\ [][Next]_vars

-----------------------------------------------------------------------------
(* The flag policy on its own: update_status_z_n applied once to any prior  *)
(* status byte and any value.                                               *)

InitFlags ==
    /\ register_a = new.register_a
    /\ register_x = new.register_x
    /\ register_y = new.register_y
    /\ status \in U8
    /\ program_counter = new.program_counter
    /\ memory = new.memory
    /\ panic = "none"
    /\ phase = "idle"
    /\ opcode = -1
    /\ call = "new"
    /\ program = Vec(<<>>)
    /\ ncalls = 0
    /\ zn_value = 0
    /\ overflow_checks \in BOOLEAN
    /\ AuxInit

\* cpu.update_status_z_n(v)
UpdateStatusZN ==
    /\ call = "new"
    /\ \E v \in U8 :
          /\ status' = update_status_z_n(status, v)
          /\ zn_value' = v
    /\ call' = "update_status_z_n"
    /\ ncalls' = ncalls + 1
    /\ UNCHANGED <<register_a, register_x, register_y, program_counter, memory,
                   panic, phase, opcode, program, overflow_checks, aux>>

NextFlags == UpdateStatusZN

SpecFlags == InitFlags /\ [][NextFlags]_vars

-----------------------------------------------------------------------------
(* load_and_run([INX, BRK]) repeated on one CPU                             *)

InxLoadAndRun ==
    /\ CanCall /\ ncalls < MaxReps
    /\ DoLoadAndRun(InxProgram)

NextInx == InxLoadAndRun \/ RunStep

SpecInx == Init /\ [][NextInx]_vars

-----------------------------------------------------------------------------
(* The memory accessors called directly: mem_read, mem_write, mem_read_u16, *)
(* mem_write_u16 at the bottom, in the middle and at the top of the 16-bit  *)
(* address space.                                                           *)

MemAddrs == {\h0000, \h00FF, \hFFFD, \hFFFE, \hFFFF}
MemBytes == {\h00, \h80, \hFF}
MemWords == {\h0000, \h1234, \h80FF, \hFFFF}

\* cpu.mem_write(addr, data)
CallMemWrite ==
    /\ CanCall /\ ncalls < MaxCalls
    /\ \E addr \in MemAddrs, data \in MemBytes :
          /\ memory' = mem_write(memory, addr, data).val
          /\ panic' = mem_write(memory, addr, data).err
          /\ arg_addr' = addr
          /\ arg_data' = data
    /\ call' = "mem_write"
    /\ ncalls' = ncalls + 1
    /\ UNCHANGED <<register_a, register_x, register_y, status, program_counter,
                   phase, opcode, program, zn_value, overflow_checks,
                   arg_mode, ret, twin, pending, twin_overflow_checks>>

\* cpu.mem_read(addr)
CallMemRead ==
    /\ CanCall /\ ncalls < MaxCalls
    /\ \E addr \in MemAddrs :
          /\ ret' = mem_read(memory, addr)
          /\ panic' = mem_read(memory, addr).err
          /\ arg_addr' = addr
    /\ call' = "mem_read"
    /\ ncalls' = ncalls + 1
    /\ UNCHANGED <<register_a, register_x, register_y, status, program_counter,
                   memory, phase, opcode, program, zn_value, overflow_checks,
                   arg_data, arg_mode, twin, pending, twin_overflow_checks>>

\* cpu.mem_write_u16(pos, data)
CallMemWriteU16 ==
    /\ CanCall /\ ncalls < MaxCalls
    /\ \E pos \in MemAddrs, data \in MemWords :
          /\ memory' = mem_write_u16(memory, pos, data, overflow_checks).val
          /\ panic' = mem_write_u16(memory, pos, data, overflow_checks).err
          /\ arg_addr' = pos
          /\ arg_data' = data
    /\ call' = "mem_write_u16"
    /\ ncalls' = ncalls + 1
    /\ UNCHANGED <<register_a, register_x, register_y, status, program_counter,
                   phase, opcode, program, zn_value, overflow_checks,
                   arg_mode, ret, twin, pending, twin_overflow_checks>>

\* cpu.mem_read_u16(pos)
CallMemReadU16 ==
    /\ CanCall /\ ncalls < MaxCalls
    /\ \E pos \in MemAddrs :
          /\ ret' = mem_read_u16(memory, pos, overflow_checks)
          /\ panic' = mem_read_u16(memory, pos, overflow_checks).err
          /\ arg_addr' = pos
    /\ call' = "mem_read_u16"
    /\ ncalls' = ncalls + 1
    /\ UNCHANGED <<register_a, register_x, register_y, status, program_counter,
                   memory, phase, opcode, program, zn_value, overflow_checks,
                   arg_data, arg_mode, twin, pending, twin_overflow_checks>>

NextMem == CallMemWrite \/ CallMemRead \/ CallMemWriteU16 \/ CallMemReadU16

SpecMem == Init /\ [][NextMem]_vars

-----------------------------------------------------------------------------
(* The addressing resolver called directly: get_operand_address(mode) on a  *)
(* CPU whose index registers, operand bytes and zero page have been set.    *)

\* enum AddressingMode
Modes ==
    {"Immediate", "ZeroPage", "ZeroPage_X", "ZeroPage_Y", "Absolute",
     "Absolute_X", "Absolute_Y", "Indirect_X", "Indirect_Y", "Indirect",
     "Accumulator", "Relative", "Implied"}

IndexVals == {\h00, \h01, \h02, \h7F, \h80, \hFF}
OperandLows == {\h00, \h01, \h7F, \hFD, \hFE, \hFF}
OperandHighs == {\h00, \h80, \hFF}

\* program_counter while a handler runs: the byte after an opcode at 0x8000
OperandPc == LoadOrigin + 1

\* zero-page contents: cell i holds 0xff - i (no two neighbours alike), or
\* every cell holds 0xff (every pointer is 0xffff)
ZeroPageFills ==
    {[i \in 0 .. 254 |-> 255 - i], [i \in 0 .. 255 |-> 255]}

InitResolve ==
    /\ register_a = new.register_a
    /\ register_x \in IndexVals
    /\ register_y \in IndexVals
    /\ status = new.status
    /\ program_counter = OperandPc
    /\ \E fill \in ZeroPageFills, lo \in OperandLows, hi \in OperandHighs :
          memory = SetCell(SetCell(fill, OperandPc, lo), OperandPc + 1, hi)
    /\ panic = "none"
    /\ phase = "idle"
    /\ opcode = -1
    /\ call = "new"
    /\ program = Vec(<<>>)
    /\ ncalls = 0
    /\ zn_value = 0
    /\ overflow_checks \in BOOLEAN
    /\ AuxInit

\* cpu.get_operand_address(&mode)
Resolve ==
    /\ call = "new"
    /\ \E mode \in Modes :
          /\ ret' = get_operand_address(Self, mode, overflow_checks)
          /\ panic' = get_operand_address(Self, mode, overflow_checks).err
          /\ arg_mode' = mode
    /\ call' = "get_operand_address"
    /\ ncalls' = ncalls + 1
    /\ UNCHANGED <<register_a, register_x, register_y, status, program_counter,
                   memory, phase, opcode, program, zn_value, overflow_checks,
                   arg_addr, arg_data, twin, pending, twin_overflow_checks>>

NextResolve == Resolve

SpecResolve == InitResolve /\ [][NextResolve]_vars

-----------------------------------------------------------------------------
(* TAX and INX after the registers have been loaded: load_and_run of        *)
(* [LDA #v, TAX, BRK] for every v, and of [LDA #a, LDX #x, LDY #y, op, BRK] *)
(* for register values at and around the 8-bit boundaries, on a CPU whose   *)
(* pub status field may have been set before.                               *)

RegVals == {\h00, \h01, \h7F, \h80, \hFF}
StatusVals == {\h00, \h7D, \hFF}

TaxPrograms == {Vec(<<\hA9, v, Tax, Brk>>) : v \in U8}

RegPrograms ==
    {Vec(<<\hA9, a, \hA2, x, \hA0, y, op, Brk>>) :
        a \in RegVals, x \in RegVals, y \in RegVals, op \in {Tax, Inx}}

InitRegs ==
    /\ register_a = new.register_a
    /\ register_x = new.register_x
    /\ register_y = new.register_y
    /\ status \in StatusVals
    /\ program_counter = new.program_counter
    /\ memory = new.memory
    /\ panic = "none"
    /\ phase = "idle"
    /\ opcode = -1
    /\ call = "new"
    /\ program = Vec(<<>>)
    /\ ncalls = 0
    /\ zn_value = 0
    /\ overflow_checks \in BOOLEAN
    /\ AuxInit

\* cpu.load_and_run(program), once
RegsLoadAndRun ==
    /\ call = "new"
    /\ \E prog \in TaxPrograms \cup RegPrograms : DoLoadAndRun(prog)

NextRegs == RegsLoadAndRun \/ RunStep

SpecRegs == InitRegs /\ [][NextRegs]_vars

-----------------------------------------------------------------------------
(* Two CPUs given the same calls.  Both start with the same registers,      *)
(* status, program_counter and memory.  The first CPU takes a step (a       *)
(* harness call, or one iteration of run's loop); the step is then taken by *)
(* the twin.  A CPU that has panicked takes no further step, and a CPU      *)
(* still inside run finishes it before the next call.                       *)
(* Each CPU is compiled under its own build profile, the one                *)
(* thing outside the struct and the arguments that cpu.rs lets decide an    *)
(* outcome (arithmetic overflow panics or wraps).                           *)

\* a CPU together with the outcome of what ran on it
Machine(cpu, pan, ph) == [cpu |-> cpu, panic |-> pan, phase |-> ph]

First == Machine(Self, panic, phase)

\* the steps of the harness: the public entry points and mem_write with their
\* arguments
\* every handled instruction once after Setup, and programs that return, hit
\* an opcode without handler (0xea) and hit one without table entry (0x02)
TwinPrograms ==
    {Vec(Setup \o <<o, \hFF, \hFF>>) : o \in HandledNonBrk} \cup
    {Vec(<<\hA9, \h05, \hAA, \h00>>), Vec(<<\hA9, \h05, \hEA, \h00>>),
     Vec(<<\hA9, \h05, \h02, \h00>>)}

TwinCalls ==
    {[kind |-> "mem_write", addr |-> a, data |-> d] : a \in {\h00FF}, d \in WriteData} \cup
    {[kind |-> "load", prog |-> p] : p \in {Vec(<<\hAA, \hE8, \h00>>)}} \cup
    {[kind |-> "reset"], [kind |-> "run"]} \cup
    {[kind |-> "load_and_run", prog |-> p] : p \in TwinPrograms}

\* one iteration of run's loop
Iterate == [kind |-> "iterate"]

\* the machine after `step` ran on machine m
Apply(m, step, checks) ==
    CASE step.kind = "mem_write" ->
            LET w == mem_write(m.cpu.memory, step.addr, step.data)
            IN  Machine([m.cpu EXCEPT !.memory = w.val], w.err, "idle")
      [] step.kind = "load" ->
            LET l == load(m.cpu, step.prog, checks)
            IN  Machine(l.val, l.err, "idle")
      [] step.kind = "reset" ->
            LET r == reset(m.cpu, checks)
            IN  Machine(r.val, r.err, "idle")
      [] step.kind = "run" -> Machine(m.cpu, m.panic, "running")
      [] step.kind = "load_and_run" ->
            LET l == load(m.cpu, step.prog, checks)
                r == reset(l.val, checks)
            IN  IF l.err # "none" THEN Machine(l.val, l.err, "idle")
                ELSE IF r.err # "none" THEN Machine(r.val, r.err, "idle")
                ELSE Machine(r.val, "none", "running")
      [] step.kind = "iterate" ->
            LET it == run_iteration(m.cpu, checks)
            IN  Machine(it.val, it.err, IF it.returned THEN "halted" ELSE "running")

\* a panic ends the process the CPU lives in: nothing runs on it afterwards
Alive(m) == m.panic = "none"

\* machine m is inside run's loop
Running(m) == Alive(m) /\ m.phase = "running"

\* the machine after the harness reached `step` on machine m: nothing runs
\* on a CPU whose process has panicked, and run's loop iterates only while
\* that CPU's run has neither returned nor panicked
StepOn(m, step, checks) ==
    IF ~Alive(m) THEN m
    ELSE IF step.kind = "iterate" /\ m.phase # "running" THEN m
    ELSE Apply(m, step, checks)

\* the harness reaches `step` on the first CPU; the twin has it pending
TakeStep(step) ==
    LET m == StepOn(First, step, overflow_checks) IN
    /\ Commit(m.cpu)
    /\ panic' = m.panic
    /\ phase' = m.phase
    /\ pending' = <<step>>
    /\ UNCHANGED twin_overflow_checks

\* the next harness call, made once no CPU is inside run and while a CPU is
\* left to make it on
TwinCall ==
    /\ pending = <<>>
    /\ ~Running(First) /\ ~Running(twin)
    /\ ~(~Alive(First) /\ ~Alive(twin))
    /\ ncalls < MaxCalls
    /\ \E step \in TwinCalls :
          /\ TakeStep(step)
          /\ call' = step.kind
          /\ program' = IF step.kind \in {"load", "load_and_run"} THEN step.prog ELSE program
    /\ ncalls' = ncalls + 1
    /\ UNCHANGED <<opcode, zn_value, overflow_checks, arg_addr, arg_data, arg_mode,
                   ret, twin>>

\* one iteration of run's loop on every CPU that is inside run, the first CPU
\* first
TwinIterate ==
    /\ pending = <<>>
    /\ ~(~Running(First) /\ ~Running(twin))
    /\ TakeStep(Iterate)
    /\ opcode' = IF Running(First) THEN run_iteration(Self, overflow_checks).opcode
                  ELSE opcode
    /\ UNCHANGED <<call, program, ncalls, zn_value, overflow_checks, arg_addr,
                   arg_data, arg_mode, ret, twin>>

\* the harness reaches the pending step on the twin
TwinReplay ==
    /\ pending # <<>>
    /\ twin' = StepOn(twin, pending[1], twin_overflow_checks)
    /\ pending' = <<>>
    /\ UNCHANGED twin_overflow_checks
    /\ UNCHANGED <<register_a, register_x, register_y, status, program_counter,
                   memory, panic, phase, opcode, call, program, ncalls, zn_value,
                   overflow_checks, arg_addr, arg_data, arg_mode, ret>>

NextTwin == TwinCall \/ TwinIterate \/ TwinReplay

\* the struct both CPUs start with: as new() leaves it, or with the pub fields
\* set so that INX (0xe8) is the instruction in the last two cells of memory
\* and program_counter is at it
TwinStarts ==
    {new, [new EXCEPT !.memory = SetCell(EmptyMemory, MemSize - 1, \hE8),
                      !.program_counter = MemSize - 1]}

InitTwin ==
    /\ \E s \in TwinStarts :
          /\ register_a = s.register_a
          /\ register_x = s.register_x
          /\ register_y = s.register_y
          /\ status = s.status
          /\ program_counter = s.program_counter
          /\ memory = s.memory
          /\ twin = Machine(s, "none", "idle")
    /\ panic = "none"
    /\ phase = "idle"
    /\ opcode = -1
    /\ call = "new"
    /\ program = Vec(<<>>)
    /\ ncalls = 0
    /\ zn_value = 0
    /\ overflow_checks \in BOOLEAN
    /\ twin_overflow_checks \in BOOLEAN
    /\ arg_addr = -1
    /\ arg_data = -1
    /\ arg_mode = "none"
    /\ ret = Ok(-1)
    /\ pending = <<>>

SpecTwin == InitTwin /\ [][NextTwin]_vars

-----------------------------------------------------------------------------
(* run() on a CPU whose pub memory field has been filled with code from     *)
(* bottom to top: LDA $00,X (0xb5, operand 0x00) at every fourth address,   *)
(* 0x0000 .. 0xfffc, with program_counter at 0 as new() leaves it, or set   *)
(* to an instruction two below the top.                                     *)

\* the distance run moves program_counter over one LDA zp,X: 1 for the fetch
\* and the amount added after the handler
LapStride == 1 + PcAdvance(OPCODES_MAP[\hB5])

LapMemory == [a \in {LapStride * k : k \in 0 .. (65536 \div LapStride) - 1} |-> \hB5]

\* program_counter when run is called: 0, or the pub field set to the
\* second-last instruction of the fill
StartPcs == {new.program_counter, 65536 - 2 * LapStride}

InitWrap ==
    /\ register_a = new.register_a
    /\ register_x = new.register_x
    /\ register_y = new.register_y
    /\ status = new.status
    /\ program_counter \in StartPcs
    /\ memory = LapMemory
    /\ panic = "none"
    /\ phase = "idle"
    /\ opcode = -1
    /\ call = "new"
    /\ program = Vec(<<>>)
    /\ ncalls = 0
    /\ zn_value = 0
    /\ overflow_checks \in BOOLEAN
    /\ AuxInit

NextWrap == Run \/ RunStep

SpecWrap == InitWrap /\ [][NextWrap]_vars

-----------------------------------------------------------------------------
(* Vocabulary of the properties *)

\* bit k of byte b
Bit(b, k) == (b \div (2 ^ k)) % 2

ZeroSet(st) == Bit(st, 1) = 1
NegativeSet(st) == Bit(st, 7) = 1

\* a harness call was made in this step
Called(name) == call' = name /\ ncalls' = ncalls + 1

\* this step is an iteration of run that fetches the opcode byte opc
Fetches(opc) ==
    /\ phase = "running" /\ panic = "none"
    /\ program_counter < MemSize
    /\ Cell(memory, program_counter) = opc

\* the little-endian word in the cells addr, addr + 1
WordAt(mem, addr) == Cell(mem, addr) + 256 * Cell(mem, addr + 1)

\* element i of the program is in memory at 0x8000 + i, for every i < n
ProgramInMemory(mem, prog, n) ==
    /\ \A i \in DOMAIN prog.bytes :
          i < n => Cell(mem, LoadOrigin + i) = prog.bytes[i]
    /\ \A a \in DOMAIN mem :
          (a >= LoadOrigin /\ a < LoadOrigin + n) => mem[a] = VecAt(prog, a - LoadOrigin)

\* the opcodes run has a match arm for
Supported == {Brk, Inx, Tax} \cup LdaOps \cup LdxOps \cup LdyOps \cup
             StaOps \cup StxOps \cup StyOps

\* the effective address the resolver gives the handler of the instruction
\* whose opcode is at program_counter
EffectiveAddress(opc) ==
    get_operand_address([Self EXCEPT !.program_counter = program_counter + 1],
                        OPCODES_MAP[opc].mode, overflow_checks)

-----------------------------------------------------------------------------
(* Properties *)

\* C1: after run has executed a supported instruction other than BRK,
\* program_counter is the address of its opcode plus the instruction length of
\* its descriptor.
C1_PcAdvancesByLength ==
    [][\A opc \in Supported \ {Brk} :
          (Fetches(opc) /\ panic' = "none") =>
              program_counter' = program_counter + OPCODES_MAP[opc].len]_vars

\* C2: update_status_z_n(v) on status s sets Zero (bit 1) iff v = 0, Negative
\* (bit 7) iff bit 7 of v is set, and keeps the other six bits of s.
C2_ZeroNegativeOnly ==
    [][Called("update_status_z_n") =>
          /\ ZeroSet(status') <=> (zn_value' = 0)
          /\ NegativeSet(status') <=> (Bit(zn_value', 7) = 1)
          /\ \A k \in {0, 2, 3, 4, 5, 6} : Bit(status', k) = Bit(status, k)]_vars

\* C2 happens: the policy ran on value 0 with Negative and the six other bits
\* set before; they are still set, Zero is set, Negative is cleared
C2_Witness ==
    call = "update_status_z_n" /\ zn_value = 0 /\ status = 127

\* C3: a load instruction (LDA, LDX, LDY, any mode) sets its register to the
\* byte at the effective address, sets Zero/Negative from that byte, and
\* leaves the other two registers and memory unchanged.
C3_LoadSetsRegister ==
    [][\A opc \in LdaOps \cup LdxOps \cup LdyOps :
          (Fetches(opc) /\ EffectiveAddress(opc).err = "none") =>
              LET byte == Cell(memory, EffectiveAddress(opc).val) IN
              /\ panic' = "none"
              /\ register_a' = IF opc \in LdaOps THEN byte ELSE register_a
              /\ register_x' = IF opc \in LdxOps THEN byte ELSE register_x
              /\ register_y' = IF opc \in LdyOps THEN byte ELSE register_y
              /\ ZeroSet(status') <=> (byte = 0)
              /\ NegativeSet(status') <=> (byte >= 128)
              /\ memory' = memory]_vars

\* C4: a store instruction (STA, STX, STY, any mode) writes its register to
\* the effective address and changes nothing else: status, A, X, Y and every
\* other memory cell stay.
C4_StoreWritesOnlyTarget ==
    [][\A opc \in StaOps \cup StxOps \cup StyOps :
          (Fetches(opc) /\ EffectiveAddress(opc).err = "none") =>
              LET addr == EffectiveAddress(opc).val
                  reg  == IF opc \in StaOps THEN register_a
                          ELSE IF opc \in StxOps THEN register_x ELSE register_y
              IN
              /\ panic' = "none"
              /\ \A a \in DOMAIN memory \cup DOMAIN memory' \cup {addr} :
                    Cell(memory', a) = IF a = addr THEN reg ELSE Cell(memory, a)
              /\ status' = status
              /\ register_a' = register_a
              /\ register_x' = register_x
              /\ register_y' = register_y]_vars

\* C5 as stated: load of any program that fits between 0x8000 and the top of
\* the 16-bit address space leaves every program byte in memory at 0x8000 + i
\* and the reset vector equal to 0x8000.
C5_LoadAnyFitting ==
    (call = "load" /\ LoadOrigin + program.len <= 65536) =>
        /\ panic = "none"
        /\ ProgramInMemory(memory, program, program.len)
        /\ WordAt(memory, ResetVector) = LoadOrigin

\* C5 amended: load of any program that ends below the reset vector (at most
\* 0x7ffc bytes) leaves every program byte in memory at 0x8000 + i and the
\* reset vector equal to 0x8000.
C5_LoadBelowVector ==
    (call = "load" /\ LoadOrigin + program.len <= ResetVector) =>
        /\ panic = "none"
        /\ ProgramInMemory(memory, program, program.len)
        /\ WordAt(memory, ResetVector) = LoadOrigin

\* C5 happens: a program of 0x7ffc bytes was loaded; its last byte sits right
\* below the reset vector
C5_Witness ==
    /\ call = "load" /\ panic = "none"
    /\ LoadOrigin + program.len = ResetVector
    /\ Cell(memory, ResetVector - 1) = 255

\* C6: load of a program longer than the memory from 0x8000 up fails, and
\* leaves memory, the registers, the status byte and program_counter as they
\* were.
C6_TooLargeFailsClean ==
    [][((Called("load") \/ Called("load_and_run"))
            /\ LoadOrigin + program'.len > MemSize) =>
          /\ panic' # "none"
          /\ phase' # "running"
          /\ UNCHANGED <<memory, register_a, register_x, register_y, status,
                         program_counter>>]_vars

\* C6 happens: load of a 0x8001-byte program failed on a CPU whose memory had
\* been written before
C6_Witness ==
    /\ call = "load" /\ program.len = 32769
    /\ panic = "slice_index_out_of_range"
    /\ memory # EmptyMemory

\* C7: reset zeroes A, X, Y, sets program_counter to the little-endian word at
\* 0xfffc/0xfffd and leaves status and memory alone; so load_and_run starts
\* its program with the status byte the CPU had before.
C7_ResetFrame ==
    [][/\ Called("reset") =>
            /\ panic' = "none"
            /\ register_a' = 0 /\ register_x' = 0 /\ register_y' = 0
            /\ program_counter' = WordAt(memory, ResetVector)
            /\ status' = status
            /\ memory' = memory
       /\ (Called("load_and_run") /\ panic' = "none") =>
            /\ status' = status
            /\ register_a' = 0 /\ register_x' = 0 /\ register_y' = 0]_vars

\* C7 happens: reset ran on a CPU whose earlier run had set a flag and whose
\* reset vector had been written by load
C7_Witness ==
    call = "reset" /\ status # 0 /\ program_counter = LoadOrigin

\* C8: run returns iff the opcode it fetches is BRK, and after it returned
\* nothing executes until the harness calls again.
C8_ReturnsIffBrk ==
    [][/\ (phase = "running" /\ panic = "none") =>
            ((phase' = "halted") <=>
                (program_counter < MemSize /\ Cell(memory, program_counter) = Brk))
       /\ (phase' = "halted" /\ phase # "halted") => (panic' = "none" /\ opcode' = Brk)
       /\ phase = "halted" => ncalls' = ncalls + 1]_vars

\* C8 happens: run returned on BRK after executing an instruction
C8_Witness ==
    phase = "halted" /\ opcode = Brk /\ register_a = 5

\* C9: fetching an opcode without table entry or without handler ends the run
\* in an unsupported-instruction panic with A, X, Y, status and memory as
\* they were, and nothing executes after a panic.
C9_UnsupportedStops ==
    [][/\ \A opc \in U8 \ Supported :
             Fetches(opc) =>
                /\ panic' \in {"unwrap_on_none", "not_yet_implemented"}
                /\ UNCHANGED <<register_a, register_x, register_y, status, memory>>
       /\ panic = "none"]_vars

\* C9 happens: run panicked on NOP (0xea, in the table, no handler) after
\* LDA #$05
C9_Witness ==
    panic = "not_yet_implemented" /\ opcode = 234 /\ register_a = 5

\* C10 as stated: the k-th load_and_run([INX, BRK]) leaves X = k mod 256, so
\* the 256th leaves X = 0 with Zero set.
C10_XCountsRepetitions ==
    phase = "halted" =>
        /\ register_x = ncalls % 256
        /\ (ncalls = 256 => ZeroSet(status))

\* C10 amended: every load_and_run([INX, BRK]) on the same CPU leaves X = 1
\* with Zero and Negative clear, because reset zeroes X before each run.
C10_XIsOneEachTime ==
    phase = "halted" =>
        /\ register_x = 1
        /\ ~ZeroSet(status)
        /\ ~NegativeSet(status)

\* C10 happens: the 256th repetition has returned
C10_Witness ==
    phase = "halted" /\ ncalls = 256 /\ register_x = 1

\* every cell but those in `written` is the same in the two arrays
SameExcept(mem1, mem2, written) ==
    \A a \in (DOMAIN mem1 \cup DOMAIN mem2) \ written : Cell(mem1, a) = Cell(mem2, a)

\* C11: mem_read(addr) and mem_write(addr, byte) succeed at every 16-bit
\* address 0x0000-0xffff: after a write, a read of the address gives the byte
\* and every other cell is as before; a read returns the cell, which is 0 on a
\* freshly constructed CPU.
C11_ReadWriteEveryAddress ==
    [][/\ Called("mem_write") =>
            /\ panic' = "none"
            /\ mem_read(memory', arg_addr') = Ok(arg_data')
            /\ SameExcept(memory, memory', {arg_addr'})
       /\ Called("mem_read") =>
            /\ panic' = "none"
            /\ ret' = Ok(Cell(memory, arg_addr'))
            /\ (memory = new.memory => ret'.val = 0)]_vars

\* C12: for every address that leaves room for two bytes below 0x10000,
\* mem_write_u16(addr, w) succeeds, a following mem_read_u16(addr) returns w,
\* the low byte of w is at addr and the high byte at addr + 1, and no other
\* cell changes.
C12_WordRoundTrip ==
    [][(Called("mem_write_u16") /\ arg_addr' + 1 <= 65535) =>
            /\ panic' = "none"
            /\ mem_read_u16(memory', arg_addr', overflow_checks) = Ok(arg_data')
            /\ Cell(memory', arg_addr') = arg_data' % 256
            /\ Cell(memory', arg_addr' + 1) = arg_data' \div 256
            /\ SameExcept(memory, memory', {arg_addr', arg_addr' + 1})]_vars

\* this step is a direct resolver call with one of the given modes
Resolves(modes) == Called("get_operand_address") /\ arg_mode' \in modes

\* the index register a mode adds: X for the _X modes, Y for the _Y modes
IndexOf(mode) ==
    IF mode \in {"ZeroPage_X", "Absolute_X", "Indirect_X"} THEN register_x ELSE register_y

\* the little-endian word in the zero-page cells p and (p + 1) mod 256
ZeroPageWordAt(mem, p) == Cell(mem, p) + 256 * Cell(mem, (p + 1) % 256)

\* C13: ZeroPage,X and ZeroPage,Y resolve to (operand byte + index register)
\* mod 256, never above 0x00ff.
C13_ZeroPageIndexWraps ==
    [][Resolves({"ZeroPage_X", "ZeroPage_Y"}) =>
          /\ ret' = Ok((Cell(memory, program_counter) + IndexOf(arg_mode')) % 256)
          /\ ret'.val <= 255]_vars

\* C13 happens: ZeroPage,X with operand 0xff and X = 2 resolved to 0x0001
C13_Witness ==
    /\ call = "get_operand_address" /\ arg_mode = "ZeroPage_X"
    /\ Cell(memory, program_counter) = 255 /\ register_x = 2
    /\ ret = Ok(1)

\* C14: Indirect,X resolves to the little-endian word at zero-page p,
\* (p + 1) mod 256 with p = (operand byte + X) mod 256; Indirect,Y resolves to
\* (the little-endian word at zero-page b, (b + 1) mod 256, b the operand
\* byte) + Y mod 65536.
C14_IndirectBeforeAndAfter ==
    [][/\ Resolves({"Indirect_X"}) =>
            ret' = Ok(ZeroPageWordAt(memory,
                        (Cell(memory, program_counter) + register_x) % 256))
       /\ Resolves({"Indirect_Y"}) =>
            ret' = Ok((ZeroPageWordAt(memory, Cell(memory, program_counter))
                        + register_y) % 65536)]_vars

\* C14 happens: Indirect,X with operand 0xfd and X = 2 read its pointer from
\* 0x00ff and 0x0000 (low byte 0x00, high byte 0xff), with Y non-zero
C14_Witness ==
    /\ call = "get_operand_address" /\ arg_mode = "Indirect_X"
    /\ Cell(memory, program_counter) = 253 /\ register_x = 2 /\ register_y = 128
    /\ Cell(memory, 255) = 0 /\ Cell(memory, 0) = 255 /\ Cell(memory, 256) = 0
    /\ ret = Ok(65280)

\* C16: resolving an address in Implied or Accumulator mode returns no
\* address: it panics, and registers, status, program_counter and memory are
\* as before.
C16_NoAddressModesPanic ==
    [][Resolves({"Implied", "Accumulator"}) =>
          /\ ret'.err = "mode_not_supported"
          /\ panic' = "mode_not_supported"
          /\ UNCHANGED <<register_a, register_x, register_y, status,
                         program_counter, memory>>]_vars

\* C16 happens: the resolver was asked for an address in Accumulator mode and
\* panicked
C16_Witness ==
    /\ call = "get_operand_address" /\ arg_mode = "Accumulator"
    /\ panic = "mode_not_supported"

\* C17: Absolute,X and Absolute,Y resolve to (the little-endian word at
\* program_counter + index register) mod 65536.
C17_AbsoluteIndexWraps ==
    [][Resolves({"Absolute_X", "Absolute_Y"}) =>
          ret' = Ok((WordAt(memory, program_counter) + IndexOf(arg_mode')) % 65536)]_vars

\* C17 happens: Absolute,X with base 0xffff and X = 2 resolved to 0x0001
C17_Witness ==
    /\ call = "get_operand_address" /\ arg_mode = "Absolute_X"
    /\ WordAt(memory, program_counter) = 65535 /\ register_x = 2
    /\ ret = Ok(1)

\* C15: TAX sets X to A, sets Zero/Negative from that value and leaves A, Y and
\* memory unchanged; load_and_run([0xa9, v, 0xaa, 0x00]) returns with A = v and
\* X = v.
C15_TaxCopiesA ==
    [][/\ Fetches(Tax) =>
            /\ panic' = "none"
            /\ register_x' = register_a
            /\ ZeroSet(status') <=> (register_a = 0)
            /\ NegativeSet(status') <=> (register_a >= 128)
            /\ register_a' = register_a
            /\ register_y' = register_y
            /\ memory' = memory
       /\ (program \in TaxPrograms /\ phase # "halted" /\ phase' = "halted") =>
            /\ register_a' = VecAt(program, 1)
            /\ register_x' = VecAt(program, 1)]_vars

\* C15 happens: load_and_run([0xa9, 0x05, 0xaa, 0x00]) has returned
C15_Witness ==
    /\ phase = "halted" /\ program = Vec(<<\hA9, \h05, \hAA, \h00>>)
    /\ register_a = 5 /\ register_x = 5

\* C20: INX sets X to (X + 1) mod 256, sets Zero/Negative from the new X and
\* leaves A, Y, the six other status bits and memory unchanged.
C20_InxWrapsFlagsOnly ==
    [][Fetches(Inx) =>
          /\ panic' = "none"
          /\ register_x' = (register_x + 1) % 256
          /\ ZeroSet(status') <=> (register_x' = 0)
          /\ NegativeSet(status') <=> (register_x' >= 128)
          /\ \A k \in {0, 2, 3, 4, 5, 6} : Bit(status', k) = Bit(status, k)
          /\ register_a' = register_a
          /\ register_y' = register_y
          /\ memory' = memory]_vars

\* C20 happens: INX ran with X = 0xff on a CPU whose status had bits 0 and
\* 2..6 set: X is 0, Zero is set, Negative is clear, the six other bits are kept
C20_Witness ==
    /\ opcode = Inx /\ panic = "none" /\ VecAt(program, 3) = 255
    /\ register_x = 0 /\ status = 127

\* the nine modes the resolver computes an address for
AddressModes ==
    {"Immediate", "ZeroPage", "ZeroPage_X", "ZeroPage_Y", "Absolute",
     "Absolute_X", "Absolute_Y", "Indirect_X", "Indirect_Y"}

\* C19: no run ends in the resolver's invalid-mode panic: every opcode run
\* dispatches to a load or store handler has one of the nine address-producing
\* modes in the opcode table, and INX, TAX and BRK resolve no address.
C19_InvalidModeUnreachable ==
    [][/\ panic' # "mode_not_supported"
       /\ \A opc \in LdaOps \cup LdxOps \cup LdyOps \cup StaOps \cup StxOps \cup StyOps :
             Fetches(opc) => OPCODES_MAP[opc].mode \in AddressModes]_vars

\* C19 happens: run executed a load through Indirect,Y without a panic
C19_Witness ==
    /\ phase = "running" /\ panic = "none"
    /\ opcode = \hB1 /\ OPCODES_MAP[opcode].mode = "Indirect_Y"

C21_StatusShape ==
    /\ ~(ZeroSet(status) /\ NegativeSet(status))
    /\ \A k \in {0, 2, 3, 4, 5, 6} : Bit(status, k) = 0

\* C21 happens: the second call on a CPU is load_and_run([LDA #$00, BRK]) and
\* its LDA has run: Zero is the only status bit set
C21_Witness ==
    /\ ncalls = 2 /\ call = "load_and_run"
    /\ program = Vec(<<\hA9, \h00, \h00>>)
    /\ opcode = \hA9 /\ register_a = 0
    /\ status = FlagZero

\* C23: run returns only on a fetched BRK, and that step changes nothing but
\* program_counter: A, X, Y, status and memory are as they were when the 0x00
\* byte was fetched, and program_counter is the address of that byte plus 1.
C23_BrkChangesOnlyPc ==
    [][/\ Fetches(Brk) => (phase' = "halted" /\ panic' = "none")
       /\ (phase # "halted" /\ phase' = "halted") =>
            /\ Fetches(Brk)
            /\ UNCHANGED <<register_a, register_x, register_y, status, memory>>
            /\ program_counter' = program_counter + 1]_vars

\* C23 happens: load_and_run([LDA #$80, BRK]) has returned with A and Negative
\* as LDA left them and program_counter behind the BRK at 0x8002
C23_Witness ==
    /\ phase = "halted" /\ program = Vec(<<\hA9, \h80, \h00>>)
    /\ register_a = 128 /\ status = FlagNegative
    /\ program_counter = LoadOrigin + 3

\* C22: program_counter strictly increases with every instruction run
\* executes and never wraps past the top of memory (which is why every run
\* would end, on BRK or in a panic, after at most 0x10000 instructions).
C22_PcStrictlyIncreases ==
    [][(phase = "running" /\ panic = "none" /\ panic' = "none") =>
          program_counter' > program_counter]_vars

====
